---- MODULE Spec2Model ----
(***************************************************************************)
(* Model of d1-repl (src/mod.ts): a readline REPL that forwards each line  *)
(* as SQL to `wrangler d1 execute` through spawnSync and renders the JSON  *)
(* answer.                                                                 *)
(*                                                                         *)
(* A JavaScript string is a sequence of one-character strings, so that     *)
(* trim, toLowerCase, startsWith, split and template interpolation are     *)
(* computed character by character.  The value undefined is Undefined.     *)
(***************************************************************************)
EXTENDS Naturals, Sequences, FiniteSets

VARIABLES
    argv,           \* process.argv after the script name
    values,         \* parseArgs(...).values
    positionals,    \* parseArgs(...).positionals
    databaseName,   \* positionals[0]
    flags,          \* the locality flags handed to wrangler
    pc,             \* "startup", "prompting", "executing" or "exited"
    exitCode,       \* the code given to process.exit, NoExit while running
    rlClosed,       \* readline.Interface.closed
    pendingSigint,  \* SIGINTs delivered and not yet dispatched by the event loop
    handler,        \* the event handler running or last run
    input,          \* the line handler's parameter, while it runs
    sql,            \* executeSQL's parameter, while it runs
    environ,        \* process.env as the running executeSQL read it
    fs,             \* the directories its findPackageManager probed, cwd first
    args,           \* the command and arguments of the subprocess in flight
    result,         \* what spawnSync returned to the step just taken
    spawned,        \* spawnSync calls made by the current or last handler
    out             \* what the step just taken printed

vars == <<argv, values, positionals, databaseName, flags, pc, exitCode,
          rlClosed, pendingSigint, handler, input, sql, environ, fs, args,
          result, spawned, out>>

-----------------------------------------------------------------------------
(* Bounds of the model. *)

\* The most SIGINTs that may be waiting for the event loop.
MaxPending == 1
\* The deepest working directory (number of directories down to the root).
MaxDepth == 2

-----------------------------------------------------------------------------
(* JavaScript strings. *)

Undefined == <<"undefined">>

\* Truthy that takes the empty string for true.
TruthyUnlessUndefined(v) == v # Undefined

Truthy(v) == v # Undefined /\ v # <<>>

WhiteSpace == {" ", "\t"}

Upper == <<"A","B","C","D","E","F","G","H","I","J","K","L","M","N","O","P","Q","R","S","T","U","V","W","X","Y","Z">>
Lower == <<"a","b","c","d","e","f","g","h","i","j","k","l","m","n","o","p","q","r","s","t","u","v","w","x","y","z">>

toLowerChar(c) ==
    IF \E i \in DOMAIN Upper : Upper[i] = c
    THEN Lower[CHOOSE i \in DOMAIN Upper : Upper[i] = c]
    ELSE c

\* toLowerCase left out of a comparison.
toLowerCaseOmitted(s) == s

toLowerCase(s) == [i \in DOMAIN s |-> toLowerChar(s[i])]

RECURSIVE trimStart(_)
trimStart(s) ==
    IF s # <<>> /\ Head(s) \in WhiteSpace THEN trimStart(Tail(s)) ELSE s

RECURSIVE trimEnd(_)
trimEnd(s) ==
    IF s # <<>> /\ s[Len(s)] \in WhiteSpace
    THEN trimEnd(SubSeq(s, 1, Len(s) - 1))
    ELSE s

trim(s) == trimEnd(trimStart(s))

startsWith(s, prefix) ==
    Len(s) >= Len(prefix) /\ SubSeq(s, 1, Len(prefix)) = prefix

\* s.split(sep) for a one-character separator.
RECURSIVE split(_, _)
split(s, sep) ==
    IF \E i \in DOMAIN s : s[i] = sep
    THEN LET i == CHOOSE k \in DOMAIN s :
                      s[k] = sep /\ \A j \in 1..(k - 1) : s[j] # sep
         IN  <<SubSeq(s, 1, i - 1)>> \o split(SubSeq(s, i + 1, Len(s)), sep)
    ELSE <<s>>

\* array[i] with i counted from 0, undefined past the end.
At(array, i) == IF i + 1 \in DOMAIN array THEN array[i + 1] ELSE Undefined

-----------------------------------------------------------------------------
(* Startup arguments: util.parseArgs with the options of mod.ts. *)

OptLocal == <<"l","o","c","a","l">>
OptRemote == <<"r","e","m","o","t","e">>
OptHelp == <<"h","e","l","p">>

\* The long name of a short option letter, Undefined for an unknown letter.
shortToLong(c) ==
    CASE c = "l" -> OptLocal
      [] c = "r" -> OptRemote
      [] c = "h" -> OptHelp
      [] OTHER -> Undefined

\* The option names one token sets: none for a positional, and Undefined
\* among them for an option parseArgs rejects (strict mode).
tokenOptions(tok) ==
    IF Len(tok) > 2 /\ tok[1] = "-" /\ tok[2] = "-"
    THEN LET name == SubSeq(tok, 3, Len(tok))
         IN  IF name \in {OptLocal, OptRemote, OptHelp}
             THEN {name} ELSE {Undefined}
    ELSE IF Len(tok) >= 2 /\ tok[1] = "-" /\ tok[2] # "-"
    THEN {shortToLong(tok[i]) : i \in 2..Len(tok)}
    ELSE {}

isPositional(tok) ==
    ~(Len(tok) >= 2 /\ tok[1] = "-")

\* parseArgs with the short spellings not declared.
parseArgsLongOnly(a) ==
    LET long(tok) == Len(tok) > 2 /\ tok[1] = "-" /\ tok[2] = "-"
        given == UNION {IF long(a[i]) THEN tokenOptions(a[i]) ELSE {}
                        : i \in DOMAIN a}
    IN  [ok |-> Undefined \notin given,
         values |-> [local |-> OptLocal \in given,
                     remote |-> OptRemote \in given,
                     help |-> OptHelp \in given],
         positionals |-> SelectSeq(a, isPositional)]

parseArgs(a) ==
    LET given == UNION {tokenOptions(a[i]) : i \in DOMAIN a}
    IN  [ok |-> Undefined \notin given,
         values |-> [local |-> OptLocal \in given,
                     remote |-> OptRemote \in given,
                     help |-> OptHelp \in given],
         positionals |-> SelectSeq(a, isPositional)]

FlagLocal == <<"-","-","l","o","c","a","l">>
FlagRemote == <<"-","-","r","e","m","o","t","e">>

\* mod.ts lines 60-62.
buildFlags(v) ==
    (IF v.local THEN <<FlagLocal>> ELSE <<>>)
        \o (IF v.remote THEN <<FlagRemote>> ELSE <<>>)

-----------------------------------------------------------------------------
(* JSON values, as JSON.parse builds them and as the rendering loop reads   *)
(* them.  An object is the sequence of its <<key, value>> entries.          *)

JNull == [t |-> "null"]
JUndefined == [t |-> "undefined"]
JBool(b) == [t |-> "boolean", b |-> b]
JNum(n) == [t |-> "number", n |-> n]
JStr(chars) == [t |-> "string", chars |-> chars]
JArr(items) == [t |-> "array", items |-> items]
JObj(entries) == [t |-> "object", entries |-> entries]

\* value.key
Get(v, key) ==
    IF v.t = "object" /\ \E i \in DOMAIN v.entries : v.entries[i][1] = key
    THEN v.entries[CHOOSE i \in DOMAIN v.entries : v.entries[i][1] = key][2]
    ELSE JUndefined

\* Whether reading a property of v throws a TypeError.
ThrowsOnGet(v) == v.t \in {"null", "undefined"}

JTruthy(v) ==
    CASE v.t = "boolean" -> v.b
      [] v.t = "number" -> v.n # 0
      [] v.t = "string" -> v.chars # <<>>
      [] v.t \in {"array", "object"} -> TRUE
      [] OTHER -> FALSE

\* value.length > 0
LengthPositive(v) ==
    CASE v.t = "array" -> Len(v.items) > 0
      [] v.t = "string" -> Len(v.chars) > 0
      [] OTHER -> FALSE

\* Object.keys(value).length > 0, for a truthy value
HasKeys(v) ==
    CASE v.t = "object" -> Len(v.entries) > 0
      [] v.t = "array" -> Len(v.items) > 0
      [] v.t = "string" -> Len(v.chars) > 0
      [] OTHER -> FALSE

\* Whether `for (const item of value)` can iterate, and over what.
Iterable(v) == v.t \in {"array", "string"}

Items(v) ==
    IF v.t = "array" THEN v.items
    ELSE [i \in DOMAIN v.chars |-> JStr(<<v.chars[i]>>)]

Row1 == JObj(<< <<"id", JNum(1)>> >>)
MetaChanges == JObj(<< <<"changes", JNum(1)>> >>)
MetaNoTable == JObj(<< <<"error", JStr(<<"n","o"," ","s","u","c","h"," ","t","a","b","l","e">>)>> >>)

Batch(success, results, meta) ==
    JObj(<< <<"success", JBool(success)>>, <<"results", JArr(results)>>,
            <<"meta", meta>> >>)

\* The texts the subprocess may leave on standard output.
Stdouts ==
    {"", "no such table",
     "null", "\"ab\"", "{\"error\":\"x\"}", "[]",
     "[{\"success\":true,\"results\":[{\"id\":1}],\"meta\":{}}]",
     "[{\"success\":true,\"results\":[],\"meta\":{\"changes\":1}}]",
     "[{\"success\":false,\"results\":[],\"meta\":{\"error\":\"no such table\"}}]",
     "[{\"success\":true,\"results\":[{\"id\":1}],\"meta\":{\"changes\":1}},{\"success\":false,\"results\":[],\"meta\":{\"error\":\"no such table\"}}]",
     "[{\"success\":true,\"results\":[],\"meta\":{}},null]"}

\* JSON.parse on those texts: ok is FALSE where it throws a SyntaxError.
JSONParse(text) ==
    CASE text = "null" -> [ok |-> TRUE, value |-> JNull]
      [] text = "\"ab\"" -> [ok |-> TRUE, value |-> JStr(<<"a", "b">>)]
      [] text = "{\"error\":\"x\"}" ->
            [ok |-> TRUE, value |-> JObj(<< <<"error", JStr(<<"x">>)>> >>)]
      [] text = "[]" -> [ok |-> TRUE, value |-> JArr(<<>>)]
      [] text = "[{\"success\":true,\"results\":[{\"id\":1}],\"meta\":{}}]" ->
            [ok |-> TRUE,
             value |-> JArr(<<Batch(TRUE, <<Row1>>, JObj(<<>>))>>)]
      [] text = "[{\"success\":true,\"results\":[],\"meta\":{\"changes\":1}}]" ->
            [ok |-> TRUE, value |-> JArr(<<Batch(TRUE, <<>>, MetaChanges)>>)]
      [] text = "[{\"success\":false,\"results\":[],\"meta\":{\"error\":\"no such table\"}}]" ->
            [ok |-> TRUE, value |-> JArr(<<Batch(FALSE, <<>>, MetaNoTable)>>)]
      [] text = "[{\"success\":true,\"results\":[{\"id\":1}],\"meta\":{\"changes\":1}},{\"success\":false,\"results\":[],\"meta\":{\"error\":\"no such table\"}}]" ->
            [ok |-> TRUE,
             value |-> JArr(<<Batch(TRUE, <<Row1>>, MetaChanges),
                              Batch(FALSE, <<>>, MetaNoTable)>>)]
      [] text = "[{\"success\":true,\"results\":[],\"meta\":{}},null]" ->
            [ok |-> TRUE,
             value |-> JArr(<<Batch(TRUE, <<>>, JObj(<<>>)), JNull>>)]
      [] OTHER -> [ok |-> FALSE, value |-> JUndefined]

-----------------------------------------------------------------------------
(* Console output: one entry per console.log / console.error call or        *)
(* prompt written by readline.                                              *)

Msg(fd, msg, arg) == [fd |-> fd, msg |-> msg, arg |-> arg]

Prompt == Msg("stdout", "sqlite> ", JUndefined)
Goodbye == Msg("stdout", "Goodbye!", JUndefined)
Banner(db) == Msg("stdout", "SQLite REPL for", JStr(db))
Usage == Msg("stdout", "Usage", JUndefined)
ReplHelp == Msg("stdout", "SQLite REPL Commands", JUndefined)
SigintHint == Msg("stdout", "Use .exit or .quit to close the REPL", JUndefined)
DbRequired == Msg("stderr", "Database name is required", JUndefined)
FlagConflict == Msg("stderr", "Cannot use both local and remote flags", JUndefined)
Uncaught(name) == Msg("stderr", "Uncaught", [t |-> "error", name |-> name])
Executing(s) == Msg("stdout", "Executing:", JStr(s))
UsingCommand(text) == Msg("stdout", "Using command:", JStr(text))
Success == Msg("stdout", "Success", JUndefined)
NoResultsReturned == Msg("stdout", "No results returned", JUndefined)
Stringified(results) == Msg("stdout", "JSON.stringify", results)
NoResults == Msg("stdout", "No results", JUndefined)
MetaLog(meta) == Msg("stdout", "Meta:", meta)
QueryFailed == Msg("stderr", "Query failed", JUndefined)
MetaErrorLog(meta) == Msg("stderr", "Meta:", meta)
ExecutionFailed(name) ==
    Msg("stderr", "Execution failed:", [t |-> "error", name |-> name])

\* The message texts of a stretch of output.
Texts(o) == [i \in DOMAIN o |-> o[i].msg]

Count(o, text) == Cardinality({i \in DOMAIN o : o[i].msg = text})

-----------------------------------------------------------------------------
(* findPackageManager: the lockfile walk from the working directory up.     *)
(* A file system is the chain of directories from the working directory     *)
(* (first) to the root (last), each the set of lockfiles it holds.          *)

PnpmLock == "pnpm-lock.yaml"
YarnLock == "yarn.lock"
BunLock == "bun.lock"
NpmLock == "package-lock.json"
DenoLock == "deno.lock"

LockFiles == {PnpmLock, YarnLock, BunLock, NpmLock, DenoLock}

Pnpm == <<"p","n","p","m">>
Yarn == <<"y","a","r","n">>
Bun == <<"b","u","n">>
Npm == <<"n","p","m">>
Deno == <<"d","e","n","o">>
Npx == <<"n","p","x">>
Wrangler == <<"w","r","a","n","g","l","e","r">>

\* dirname(currentDir) !== currentDir: every directory but the root.
hasParent(chain, i) == i < Len(chain)

RECURSIVE walk(_, _)
walk(chain, i) ==
    IF ~hasParent(chain, i) THEN Npx
    ELSE IF PnpmLock \in chain[i] THEN Pnpm
    ELSE IF YarnLock \in chain[i] THEN Yarn
    ELSE IF BunLock \in chain[i] THEN Bun
    ELSE IF NpmLock \in chain[i] THEN Npm
    ELSE IF DenoLock \in chain[i] THEN Deno
    ELSE walk(chain, i + 1)

findPackageManager(chain) == walk(chain, 1)

\* launcher that looks for a lockfile whatever the environment says.
launcherIgnoringAgent(e, chain) ==
    LET packageManager == findPackageManager(chain)
    IN  IF packageManager = Deno
        THEN <<Deno, <<"r","u","n">>, <<"-","A">>, <<"n","p","m",":","w","r","a","n","g","l","e","r">>>>
        ELSE IF packageManager = Pnpm THEN <<Pnpm, Wrangler>>
        ELSE IF packageManager = Yarn THEN <<Yarn, Wrangler>>
        ELSE IF packageManager = Bun THEN <<Bun, Wrangler>>
        ELSE <<Npx, Wrangler>>

\* mod.ts lines 168-183: the words that launch wrangler.
launcher(e, chain) ==
    IF Truthy(e.npm_config_user_agent) THEN <<Wrangler>>
    ELSE LET packageManager == findPackageManager(chain)
         IN  IF packageManager = Deno
             THEN <<Deno, <<"r","u","n">>, <<"-","A">>, <<"n","p","m",":","w","r","a","n","g","l","e","r">>>>
             ELSE IF packageManager = Pnpm THEN <<Pnpm, Wrangler>>
             ELSE IF packageManager = Yarn THEN <<Yarn, Wrangler>>
             ELSE IF packageManager = Bun THEN <<Bun, Wrangler>>
             ELSE <<Npx, Wrangler>>

\* d1Args with the locality flags pushed last.
d1ArgsFlagsLast(db, fl, s) ==
    <<<<"d","1">>, <<"e","x","e","c","u","t","e">>, db, <<"-","-","j","s","o","n">>, <<"-","-","c","o","m","m","a","n","d">>, s>> \o fl

\* mod.ts lines 185-193.
d1Args(db, fl, s) ==
    <<<<"d","1">>, <<"e","x","e","c","u","t","e">>, db>> \o fl \o <<<<"-","-","j","s","o","n">>, <<"-","-","c","o","m","m","a","n","d">>, s>>

buildArgs(e, chain, db, fl, s) == launcher(e, chain) \o d1Args(db, fl, s)

\* array.join(' ')
RECURSIVE join(_)
join(array) ==
    IF array = <<>> THEN <<>>
    ELSE IF Len(array) = 1 THEN array[1]
    ELSE array[1] \o <<" ">> \o join(Tail(array))

\* mod.ts lines 197-199.
debugOutput(e, a) ==
    IF Truthy(e.DEBUG) THEN <<UsingCommand(join(a))>> ELSE <<>>

-----------------------------------------------------------------------------
(* The SQL the dot-commands synthesize. *)

TablesSQL ==
    <<"S","E","L","E","C","T"," ","n","a","m","e"," ","F","R","O","M"," ",
    "s","q","l","i","t","e","_","m","a","s","t","e","r"," ","W","H","E","R",
    "E"," ","t","y","p","e","=","'","t","a","b","l","e","'"," ","A","N","D",
    " ","n","a","m","e"," ","N","O","T"," ","L","I","K","E"," ","'","s","q",
    "l","i","t","e","_","%","'"," ","O","R","D","E","R"," ","B","Y"," ","n",
    "a","m","e",";">>

AllSchemasSQL ==
    <<"S","E","L","E","C","T"," ","n","a","m","e",","," ","s","q","l"," ",
    "F","R","O","M"," ","s","q","l","i","t","e","_","m","a","s","t","e","r",
    " ","W","H","E","R","E"," ","t","y","p","e","=","'","t","a","b","l","e",
    "'"," ","A","N","D"," ","n","a","m","e"," ","N","O","T"," ","L","I","K",
    "E"," ","'","s","q","l","i","t","e","_","%","'"," ","O","R","D","E","R",
    " ","B","Y"," ","n","a","m","e",";">>

SchemaPrefix ==
    <<"S","E","L","E","C","T"," ","s","q","l"," ","F","R","O","M"," ","s",
    "q","l","i","t","e","_","m","a","s","t","e","r"," ","W","H","E","R","E",
    " ","t","y","p","e","=","'","t","a","b","l","e","'"," ","A","N","D"," ",
    "n","a","m","e","=","'">>

SchemaSuffix == <<"'",";">>

\* showSchema's SQL text.
schemaSQL(tableName) ==
    IF Truthy(tableName)
    THEN SchemaPrefix \o tableName \o SchemaSuffix
    ELSE AllSchemasSQL

DotExit == <<".","e","x","i","t">>
DotQuit == <<".","q","u","i","t">>
DotHelp == <<".","h","e","l","p">>
DotTables == <<".","t","a","b","l","e","s">>
DotSchema == <<".","s","c","h","e","m","a">>

-----------------------------------------------------------------------------
(* Rendering the answer of the subprocess. *)

\* displayResults
displayResults(results) ==
    IF ~LengthPositive(results) THEN <<NoResults>>
    ELSE <<Stringified(results)>>

\* renderItem that prints the metadata of a successful batch even when it
\* is empty.
renderItemMetaAlways(item) ==
    IF JTruthy(Get(item, "success"))
    THEN <<Success>>
         \o (IF JTruthy(Get(item, "results"))
                /\ LengthPositive(Get(item, "results"))
             THEN displayResults(Get(item, "results"))
             ELSE <<NoResultsReturned>>)
         \o (IF JTruthy(Get(item, "meta"))
             THEN <<MetaLog(Get(item, "meta"))>>
             ELSE <<>>)
    ELSE <<QueryFailed, MetaErrorLog(Get(item, "meta"))>>

\* One turn of the loop of mod.ts lines 218-233, for an item that does not
\* make it throw.
renderItem(item) ==
    IF JTruthy(Get(item, "success"))
    THEN <<Success>>
         \o (IF JTruthy(Get(item, "results"))
                /\ LengthPositive(Get(item, "results"))
             THEN displayResults(Get(item, "results"))
             ELSE <<NoResultsReturned>>)
         \o (IF JTruthy(Get(item, "meta")) /\ HasKeys(Get(item, "meta"))
             THEN <<MetaLog(Get(item, "meta"))>>
             ELSE <<>>)
    ELSE <<QueryFailed, MetaErrorLog(Get(item, "meta"))>>

\* The loop: what it prints, and whether it ended by throwing.
RECURSIVE renderItems(_)
renderItems(items) ==
    IF items = <<>> THEN [out |-> <<>>, threw |-> FALSE]
    ELSE IF ThrowsOnGet(Head(items)) THEN [out |-> <<>>, threw |-> TRUE]
    ELSE LET rest == renderItems(Tail(items))
         IN  [out |-> renderItem(Head(items)) \o rest.out,
              threw |-> rest.threw]

\* afterSpawn without the check of the exit status (lines 210-214 left out).
afterSpawnIgnoringStatus(r) ==
    IF r.error THEN <<ExecutionFailed("SpawnError")>>
    ELSE LET parsed == JSONParse(r.stdout)
         IN  IF ~parsed.ok THEN <<ExecutionFailed("SyntaxError")>>
             ELSE IF ~Iterable(parsed.value)
             THEN <<ExecutionFailed("TypeError")>>
             ELSE LET rendered == renderItems(Items(parsed.value))
                  IN  rendered.out
                      \o (IF rendered.threw
                          THEN <<ExecutionFailed("TypeError")>>
                          ELSE <<>>)

\* mod.ts lines 206-236: everything executeSQL prints once spawnSync has
\* returned r.
afterSpawn(r) ==
    IF r.error THEN <<ExecutionFailed("SpawnError")>>
    ELSE IF r.status # "0" THEN <<ExecutionFailed("Error")>>
    ELSE LET parsed == JSONParse(r.stdout)
         IN  IF ~parsed.ok THEN <<ExecutionFailed("SyntaxError")>>
             ELSE IF ~Iterable(parsed.value)
             THEN <<ExecutionFailed("TypeError")>>
             ELSE LET rendered == renderItems(Items(parsed.value))
                  IN  rendered.out
                      \o (IF rendered.threw
                          THEN <<ExecutionFailed("TypeError")>>
                          ELSE <<>>)

\* SQLiteREPL.exit: rl.close() emits 'close' the first time, whose handler
\* calls exit() again, and that call ends the process.
RECURSIVE exitOutput(_)
exitOutput(closed) ==
    <<Goodbye>> \o (IF closed THEN <<>> ELSE exitOutput(TRUE))

-----------------------------------------------------------------------------
(* The inputs explored. *)

Db == <<"d","b">>

\* The command-line words tried; a command line uses each at most once.
Tokens == {<<"-","l">>, <<"-","-","r","e","m","o","t","e">>, <<"-","h">>, <<"-","x">>, Db, <<>>}

RECURSIVE Arrangements(_)
Arrangements(S) ==
    {<<>>} \cup UNION {{<<t>> \o a : a \in Arrangements(S \ {t})} : t \in S}

Argvs == Arrangements(Tokens)

\* The lines typed at the prompt.
Lines ==
    {<<>>, <<" ","\t">>,
     <<".","e","x","i","t">>, <<".","Q","U","I","T">>,
     <<".","h","e","l","p">>, <<" ",".","H","e","l","p"," ">>,
     <<".","t","a","b","l","e","s">>, <<".","T","A","B","L","E","S">>, <<".","t","a","b","l","e","s"," ","x">>,
     <<".","s","c","h","e","m","a">>, <<".","s","c","h","e","m","a"," ","f","o","o">>, <<".","S","c","h","e","m","a"," ","F","o","o">>, <<".","s","c","h","e","m","a"," "," ","f","o","o">>,
     <<".","s","c","h","e","m","a","f","o","o">>, <<".","s","c","h","e","m","a"," ","f","o","o"," ","b","a","r">>, <<".","s","c","h","e","m","a"," ","o","'","x">>,
     <<"S","E","L","E","C","T"," ","1",";">>, <<" ","s","e","l","e","c","t"," ","1"," ">>}

Environments ==
    [npm_config_user_agent : {Undefined, <<>>, <<"p","n","p","m","/","9">>},
     DEBUG : {Undefined, <<"1">>}]

NoEnv == [npm_config_user_agent |-> Undefined, DEBUG |-> Undefined]

\* Directory chains down to MaxDepth directories deep that hold at most one
\* lockfile in all.
Chains == UNION {[1..d -> {{}} \cup {{f} : f \in LockFiles}] : d \in 1..MaxDepth}

FileSystems ==
    {c \in Chains : Cardinality({i \in DOMAIN c : c[i] # {}}) <= 1}

NoFs == <<>>

\* What spawnSync may return: a spawn error, or an exit status (null when a
\* signal ended the subprocess) with the captured standard output.
SpawnResults ==
    {[error |-> TRUE, status |-> "null", stdout |-> ""]}
        \cup [error : {FALSE}, status : {"0", "1", "null"}, stdout : Stdouts]

NoResult == [error |-> FALSE, status |-> "none", stdout |-> ""]

NoExit == <<>>

-----------------------------------------------------------------------------
(* The state machine. *)

Init ==
    /\ argv \in Argvs
    /\ values = [local |-> FALSE, remote |-> FALSE, help |-> FALSE]
    /\ positionals = <<>>
    /\ databaseName = Undefined
    /\ flags = <<>>
    /\ pc = "startup"
    /\ exitCode = NoExit
    /\ rlClosed = FALSE
    /\ pendingSigint = 0
    /\ handler = "main"
    /\ input = Undefined
    /\ sql = Undefined
    /\ environ = NoEnv
    /\ fs = NoFs
    /\ args = <<>>
    /\ result = NoResult
    /\ spawned = 0
    /\ out = <<>>

session == <<argv, values, positionals, databaseName, flags>>
call == <<sql, environ, fs, args, result, spawned>>

\* process.exit(code) after printing o.
ProcessExit(code, o) ==
    /\ pc' = "exited"
    /\ exitCode' = <<code>>
    /\ out' = o

\* mod.ts lines 10-62 and 313-315: the module's top-level code.
Startup ==
    /\ pc = "startup"
    /\ LET p == parseArgs(argv)
           db == At(p.positionals, 0)
       IN  IF ~p.ok
           THEN /\ ProcessExit(1, <<Uncaught("TypeError")>>)
                /\ UNCHANGED <<values, positionals, databaseName, flags>>
           ELSE /\ values' = p.values
                /\ positionals' = p.positionals
                /\ IF p.values.help
                   THEN /\ ProcessExit(0, <<Usage>>)
                        /\ UNCHANGED <<databaseName, flags>>
                   ELSE /\ databaseName' = db
                        /\ IF ~Truthy(db)
                           THEN /\ ProcessExit(1, <<DbRequired>>)
                                /\ UNCHANGED flags
                           ELSE IF p.values.local /\ p.values.remote
                           THEN /\ ProcessExit(1, <<FlagConflict>>)
                                /\ UNCHANGED flags
                           ELSE /\ flags' = buildFlags(p.values)
                                /\ pc' = "prompting"
                                /\ out' = <<Banner(db), Prompt>>
                                /\ UNCHANGED exitCode
    /\ UNCHANGED <<argv, rlClosed, pendingSigint, handler, input>>
    /\ UNCHANGED call

\* A handler that runs to its end without a subprocess, printing o.
Respond(h, l, o) ==
    /\ handler' = h
    /\ input' = l
    /\ out' = o
    /\ sql' = Undefined
    /\ environ' = NoEnv
    /\ fs' = NoFs
    /\ args' = <<>>
    /\ result' = NoResult
    /\ spawned' = 0

\* SQLiteREPL.exit, called with rl.closed as given.
Exit(h, l, closed) ==
    /\ Respond(h, l, <<>> \o exitOutput(closed))
    /\ rlClosed' = TRUE
    /\ pc' = "exited"
    /\ exitCode' = <<0>>
    /\ UNCHANGED pendingSigint

\* executeSQL up to the spawnSync call, which blocks the thread.
ExecuteSQL(l, s) ==
    \E e \in Environments :
        \E chain \in FileSystems :
            LET a == buildArgs(e, chain, databaseName, flags, s)
            IN  /\ handler' = "line"
                /\ input' = l
                /\ sql' = s
                /\ environ' = e
                /\ fs' = IF Truthy(e.npm_config_user_agent) THEN NoFs ELSE chain
                /\ args' = a
                /\ result' = NoResult
                /\ spawned' = 1
                /\ out' = <<Executing(s)>> \o debugOutput(e, a)
                /\ pc' = "executing"
                /\ UNCHANGED <<rlClosed, exitCode, pendingSigint>>

\* The 'line' handler, mod.ts lines 107-145.
Line ==
    /\ pc = "prompting"
    /\ \E l \in Lines :
        LET trimmed == trim(l)
            lower == toLowerCase(trimmed)
        IN  IF trimmed = <<>>
            THEN /\ Respond("line", l, <<Prompt>>)
                 /\ UNCHANGED <<pc, rlClosed, exitCode, pendingSigint>>
            ELSE IF lower = DotExit \/ lower = DotQuit
            THEN Exit("line", l, rlClosed)
            ELSE IF lower = DotHelp
            THEN /\ Respond("line", l, <<ReplHelp, Prompt>>)
                 /\ UNCHANGED <<pc, rlClosed, exitCode, pendingSigint>>
            ELSE IF lower = DotTables
            THEN ExecuteSQL(l, TablesSQL)
            ELSE IF startsWith(lower, DotSchema)
            THEN ExecuteSQL(l, schemaSQL(At(split(trimmed, " "), 1)))
            ELSE ExecuteSQL(l, trimmed)
    /\ UNCHANGED session

\* SpawnReturn without the try/catch: a spawn error ends the process.
SpawnReturnUncaught ==
    /\ pc = "executing"
    /\ \E r \in SpawnResults :
        /\ result' = r
        /\ IF r.error
           THEN /\ out' = <<Uncaught("Error")>>
                /\ pc' = "exited"
                /\ exitCode' = <<1>>
           ELSE /\ out' = afterSpawn(r) \o <<Prompt>>
                /\ pc' = "prompting"
                /\ UNCHANGED exitCode
    /\ input' = Undefined
    /\ sql' = Undefined
    /\ environ' = NoEnv
    /\ fs' = NoFs
    /\ args' = <<>>
    /\ UNCHANGED <<handler, spawned, rlClosed, pendingSigint>>
    /\ UNCHANGED session

\* SpawnReturn that runs the subprocess once more after a spawn error.
SpawnReturnRetrying ==
    /\ pc = "executing"
    /\ \E r \in SpawnResults :
        /\ result' = r
        /\ IF r.error /\ spawned < 2
           THEN /\ out' = <<>>
                /\ spawned' = spawned + 1
                /\ UNCHANGED <<pc, input, sql, environ, fs, args>>
           ELSE /\ out' = afterSpawn(r) \o <<Prompt>>
                /\ pc' = "prompting"
                /\ input' = Undefined
                /\ sql' = Undefined
                /\ environ' = NoEnv
                /\ fs' = NoFs
                /\ args' = <<>>
                /\ UNCHANGED spawned
    /\ UNCHANGED <<handler, rlClosed, exitCode, pendingSigint>>
    /\ UNCHANGED session

\* SpawnReturn in which a pending interrupt is handled while the subprocess
\* call is still blocking.
SpawnReturnInterrupted ==
    /\ pc = "executing"
    /\ \E r \in SpawnResults :
        /\ result' = r
        /\ IF pendingSigint > 0
           THEN /\ out' = <<SigintHint, Prompt>> \o afterSpawn(r) \o <<Prompt>>
                /\ pendingSigint' = pendingSigint - 1
           ELSE /\ out' = afterSpawn(r) \o <<Prompt>>
                /\ UNCHANGED pendingSigint
    /\ pc' = "prompting"
    /\ input' = Undefined
    /\ sql' = Undefined
    /\ environ' = NoEnv
    /\ fs' = NoFs
    /\ args' = <<>>
    /\ UNCHANGED <<handler, spawned, rlClosed, exitCode>>
    /\ UNCHANGED session

\* SpawnReturn that uses up the locality flags of the session.
SpawnReturnDroppingFlags ==
    /\ pc = "executing"
    /\ \E r \in SpawnResults :
        /\ result' = r
        /\ out' = afterSpawn(r) \o <<Prompt>>
    /\ pc' = "prompting"
    /\ input' = Undefined
    /\ sql' = Undefined
    /\ environ' = NoEnv
    /\ fs' = NoFs
    /\ args' = <<>>
    /\ flags' = <<>>
    /\ UNCHANGED <<handler, spawned, rlClosed, exitCode, pendingSigint>>
    /\ UNCHANGED <<argv, values, positionals, databaseName>>

\* spawnSync returns: executeSQL renders the answer and the line handler
\* prompts again, mod.ts lines 206-236 and 131, 138, 144.  The handler's
\* locals end with it.
SpawnReturn ==
    /\ pc = "executing"
    /\ \E r \in SpawnResults :
        /\ result' = r
        /\ out' = afterSpawn(r) \o <<Prompt>>
    /\ pc' = "prompting"
    /\ input' = Undefined
    /\ sql' = Undefined
    /\ environ' = NoEnv
    /\ fs' = NoFs
    /\ args' = <<>>
    /\ UNCHANGED <<handler, spawned, rlClosed, exitCode, pendingSigint>>
    /\ UNCHANGED session

\* End of input: readline closes itself and emits 'close', mod.ts 147-149.
Close ==
    /\ pc = "prompting"
    /\ ~rlClosed
    /\ Exit("close", Undefined, TRUE)
    /\ UNCHANGED session

\* A SIGINT reaches the process; its listener runs when the event loop
\* next turns, so not while spawnSync blocks.
SigintArrive ==
    /\ pc \in {"prompting", "executing"}
    /\ pendingSigint < MaxPending
    /\ pendingSigint' = pendingSigint + 1
    /\ UNCHANGED <<pc, exitCode, rlClosed, handler, input, out>>
    /\ UNCHANGED call
    /\ UNCHANGED session
\* Sigint as it would be without the listener of mod.ts 151-155: the default
\* disposition of the signal ends the process.
SigintTerminating ==
    /\ pc = "prompting"
    /\ pendingSigint > 0
    /\ pendingSigint' = pendingSigint - 1
    /\ Respond("SIGINT", Undefined, <<>>)
    /\ pc' = "exited"
    /\ exitCode' = <<1>>
    /\ UNCHANGED rlClosed
    /\ UNCHANGED session

\* The SIGINT listener, mod.ts lines 152-155.
Sigint ==
    /\ pc = "prompting"
    /\ pendingSigint > 0
    /\ pendingSigint' = pendingSigint - 1
    /\ Respond("SIGINT", Undefined, <<SigintHint, Prompt>>)
    /\ UNCHANGED <<pc, rlClosed, exitCode>>
    /\ UNCHANGED session

Next ==
    \/ Startup
    \/ Line
    \/ SpawnReturn
    \/ Close
    \/ SigintArrive
    \/ Sigint

Spec == Init /\ [][Next]_vars


-----------------------------------------------------------------------------
(* Vocabulary of the properties. *)

ExecutionFailedText == "Execution failed:"
PromptText == "sqlite> "

\* The subprocess failed at the level of the host: it could not be spawned,
\* it ended with a status other than 0, or its output is not JSON.
HostFailure(r) ==
    \/ r.error
    \/ r.status \in {"1", "null"}
    \/ r.status = "0" /\ r.stdout \in {"", "no such table"}

\* A step in which the line handler is handed a line.
LineStep ==
    /\ pc = "prompting"
    /\ handler' = "line"
    /\ input' # Undefined
    /\ pendingSigint' = pendingSigint

\* The lines of the model by what the documentation says of them.
BlankLines == {<<>>, <<" ","\t">>}
ExitLines == {<<".","e","x","i","t">>, <<".","Q","U","I","T">>}
HelpLines == {<<".","h","e","l","p">>, <<" ",".","H","e","l","p"," ">>}
TablesLines == {<<".","t","a","b","l","e","s">>, <<".","T","A","B","L","E","S">>}
DispatchedLines == Lines \ (BlankLines \cup ExitLines \cup HelpLines)

\* C1: when the subprocess fails at the level of the host (spawn error,
\* nonzero or null status, output that is not JSON), the step that takes the
\* answer prints exactly one "Execution failed" message and no batch output,
\* the process keeps running and the prompt is shown again.
C1_ExecutionFailureReported ==
    HostFailure(result) =>
        /\ Texts(out) = <<ExecutionFailedText, PromptText>>
        /\ pc = "prompting"
        /\ exitCode = NoExit
        /\ spawned = 1

C1_Witness ==
    /\ result.status = "1"
    /\ ~result.error
    /\ result.stdout = "[]"
    /\ Count(out, ExecutionFailedText) = 1
    /\ pc = "prompting"

\* C2 as stated: every submitted line moves prompting to executing.
C2_EveryLineExecutes ==
    [][LineStep => pc' = "executing"]_vars

\* C2, amended: the process is starting, prompting, executing or exited; a
\* submitted line moves prompting to executing exactly when it is dispatched
\* to execution (it is not blank, .help, .exit or .quit); and from executing
\* the process goes nowhere but to prompting, with the prompt shown again,
\* whatever the subprocess answered, and never exits.
C2_TwoStates ==
    [][/\ pc' \in {"startup", "prompting", "executing", "exited"}
       /\ LineStep => (pc' = "executing" <=> input' \in DispatchedLines)
       /\ LineStep /\ input' \in BlankLines \cup HelpLines => pc' = "prompting"
       /\ pc = "executing" =>
            /\ pc' \in {"executing", "prompting"}
            /\ exitCode' = NoExit
            /\ pc' = "prompting" =>
                 /\ result' \in SpawnResults
                 /\ out'[Len(out')] = Prompt]_vars

C2_Witness ==
    /\ pc = "prompting"
    /\ result.error
    /\ out[Len(out)] = Prompt
    /\ spawned = 1

\* C3: at most one subprocess is in flight and no line is handled while one
\* is; a line dispatched to execution makes exactly one spawnSync call, which
\* is not repeated when it fails; a blank line, .help, .exit and .quit make
\* none.
C3_OneSubprocessPerLine ==
    [][/\ spawned' <= 1
       /\ (args' # <<>>) <=> (pc' = "executing")
       /\ LineStep =>
            spawned' = (IF input' \in DispatchedLines THEN 1 ELSE 0)
       /\ pc = "executing" =>
            /\ spawned' = spawned
            /\ input' \in {input, Undefined}
            /\ pc' = "executing" => args' = args]_vars

C3_Witness ==
    /\ pc = "prompting"
    /\ HostFailure(result)
    /\ spawned = 1
    /\ args = <<>>

\* The last argument handed to the subprocess.
LastArg == args[Len(args)]

\* The lines of the model that are none of the documented commands.
UndocumentedLines ==
    {<<".","t","a","b","l","e","s"," ","x">>, <<".","s","c","h","e","m","a","f","o","o">>, <<"S","E","L","E","C","T"," ","1",";">>, <<" ","s","e","l","e","c","t"," ","1"," ">>}

\* C4: a line that is not blank and is none of .exit, .quit, .help, .tables
\* and .schema [name] reaches the subprocess as its trimmed text, unchanged.
C4_ForwardedVerbatim ==
    pc = "executing" /\ input \in UndocumentedLines => LastArg = trim(input)

\* The SQL texts as the documentation gives them.
DocTablesSQL ==
    <<"S","E","L","E","C","T"," ","n","a","m","e"," ","F","R","O","M"," ",
    "s","q","l","i","t","e","_","m","a","s","t","e","r"," ","W","H","E","R",
    "E"," ","t","y","p","e","=","'","t","a","b","l","e","'"," ","A","N","D",
    " ","n","a","m","e"," ","N","O","T"," ","L","I","K","E"," ","'","s","q",
    "l","i","t","e","_","%","'"," ","O","R","D","E","R"," ","B","Y"," ","n",
    "a","m","e",";">>

DocAllSchemasSQL ==
    <<"S","E","L","E","C","T"," ","n","a","m","e",","," ","s","q","l"," ",
    "F","R","O","M"," ","s","q","l","i","t","e","_","m","a","s","t","e","r",
    " ","W","H","E","R","E"," ","t","y","p","e","=","'","t","a","b","l","e",
    "'"," ","A","N","D"," ","n","a","m","e"," ","N","O","T"," ","L","I","K",
    "E"," ","'","s","q","l","i","t","e","_","%","'"," ","O","R","D","E","R",
    " ","B","Y"," ","n","a","m","e",";">>

DocSchemaSQL(name) ==
    <<"S","E","L","E","C","T"," ","s","q","l"," ","F","R","O","M"," ","s","q","l","i","t","e","_","m","a","s","t","e","r"," ","W","H","E","R","E"," ","t","y","p","e","=","'","t","a","b","l","e","'"," ","A","N","D"," ","n","a","m","e","=","'">>
        \o name \o <<"'",";">>

\* The table name each .schema line of the model gives, <<>> for none.
SchemaLineName(l) ==
    CASE l = <<".","s","c","h","e","m","a">> -> <<>>
      [] l = <<".","s","c","h","e","m","a"," ","f","o","o">> -> <<"f","o","o">>
      [] l = <<".","S","c","h","e","m","a"," ","F","o","o">> -> <<"F","o","o">>
      [] l = <<".","s","c","h","e","m","a"," "," ","f","o","o">> -> <<"f","o","o">>
      [] l = <<".","s","c","h","e","m","a"," ","o","'","x">> -> <<"o","'","x">>

SchemaLines ==
    {<<".","s","c","h","e","m","a">>, <<".","s","c","h","e","m","a"," ","f","o","o">>, <<".","S","c","h","e","m","a"," ","F","o","o">>, <<".","s","c","h","e","m","a"," "," ","f","o","o">>,
     <<".","s","c","h","e","m","a"," ","o","'","x">>}

\* C5: .schema alone runs the query of all user tables, and .schema followed
\* by a name runs the one-table query with that name put in as it is.
C5_SchemaSQL ==
    pc = "executing" /\ input \in SchemaLines =>
        LastArg = (IF SchemaLineName(input) = <<>>
                   THEN DocAllSchemasSQL
                   ELSE DocSchemaSQL(SchemaLineName(input)))

\* C6: in any letter case .tables runs exactly the documented query, and
\* .exit, .quit and .help run no SQL at all.
C6_DotCommands ==
    /\ input \in TablesLines =>
         /\ pc = "executing"
         /\ sql = DocTablesSQL
         /\ LastArg = DocTablesSQL
    /\ input \in ExitLines \cup HelpLines =>
         /\ pc # "executing"
         /\ spawned = 0
         /\ sql = Undefined
         /\ args = <<>>
    /\ input \in ExitLines => pc = "exited"
    /\ input \in HelpLines => Texts(out) = <<"SQLite REPL Commands", PromptText>>

C6_Witness ==
    /\ input = <<".","T","A","B","L","E","S">>
    /\ pc = "executing"
    /\ LastArg = DocTablesSQL

\* The launcher of each lockfile, and of none.
LauncherOf(lock) ==
    CASE lock = PnpmLock -> <<Pnpm, Wrangler>>
      [] lock = YarnLock -> <<Yarn, Wrangler>>
      [] lock = BunLock -> <<Bun, Wrangler>>
      [] lock = NpmLock -> <<Npx, Wrangler>>
      [] lock = DenoLock -> <<Deno, <<"r","u","n">>, <<"-","A">>, <<"n","p","m",":","w","r","a","n","g","l","e","r">>>>
      [] OTHER -> <<Npx, Wrangler>>

LockOrder == <<PnpmLock, YarnLock, BunLock, NpmLock, DenoLock>>

\* The first lockfile, in the order pnpm, yarn, bun, npm, deno, of the first
\* directory of the chain that holds any; "none" when no directory does.
FirstLock(chain) ==
    IF \A i \in DOMAIN chain : chain[i] = {} THEN "none"
    ELSE LET d == CHOOSE i \in DOMAIN chain :
                      chain[i] # {} /\ \A j \in 1..(i - 1) : chain[j] = {}
             k == CHOOSE n \in DOMAIN LockOrder :
                      /\ LockOrder[n] \in chain[d]
                      /\ \A m \in 1..(n - 1) : LockOrder[m] \notin chain[d]
         IN  LockOrder[k]

\* C7: without a package-manager environment the launcher is that of the
\* first directory, from the working directory up to the root, that holds a
\* lockfile, and npx when no directory holds one.
C7_LauncherFromFirstLockfile ==
    pc = "executing" /\ fs # NoFs =>
        LET l == LauncherOf(FirstLock(fs))
        IN  /\ Len(args) > Len(l)
            /\ SubSeq(args, 1, Len(l)) = l
            /\ args[Len(l) + 1] = <<"d","1">>

LocalForms == {<<"-","l">>, <<"-","-","l","o","c","a","l">>}
RemoteForms == {<<"-","r">>, <<"-","-","r","e","m","o","t","e">>}
HelpForms == {<<"-","h">>, <<"-","-","h","e","l","p">>}

LocalGiven == \E i \in DOMAIN argv : argv[i] \in LocalForms
RemoteGiven == \E i \in DOMAIN argv : argv[i] \in RemoteForms
HelpGiven == \E i \in DOMAIN argv : argv[i] \in HelpForms
UnknownGiven == \E i \in DOMAIN argv : argv[i] = <<"-","x">>

\* The words of the command line that are not options, in order.
Names == SelectSeq(argv, LAMBDA tok : tok = <<>> \/ tok[1] # "-")

NoDatabaseName == Names = <<>> \/ Names[1] = <<>>

Launchers ==
    {<<Wrangler>>, <<Pnpm, Wrangler>>, <<Yarn, Wrangler>>, <<Bun, Wrangler>>,
     <<Npx, Wrangler>>, <<Deno, <<"r","u","n">>, <<"-","A">>, <<"n","p","m",":","w","r","a","n","g","l","e","r">>>>}

\* C8: every subprocess is called as
\* <launcher...> d1 execute <database> [--local|--remote] --json --command <sql>
\* with the database named first on the command line, the locality flag the
\* command line gave (never both) and the SQL as the one last argument.
C8_InvocationShape ==
    pc = "executing" =>
        /\ ~(LocalGiven /\ RemoteGiven)
        /\ \E l \in Launchers :
             args = l \o <<<<"d","1">>, <<"e","x","e","c","u","t","e">>, Names[1]>>
                      \o (IF LocalGiven THEN <<<<"-","-","l","o","c","a","l">>>> ELSE <<>>)
                      \o (IF RemoteGiven THEN <<<<"-","-","r","e","m","o","t","e">>>> ELSE <<>>)
                      \o <<<<"-","-","j","s","o","n">>, <<"-","-","c","o","m","m","a","n","d">>, sql>>

C8_Witness ==
    /\ pc = "executing"
    /\ RemoteGiven
    /\ args[1] = Deno
    /\ input = <<".","s","c","h","e","m","a"," ","f","o","o">>
    /\ LastArg = DocSchemaSQL(<<"f","o","o">>)

\* C9 as stated: with both locality flags the process ends with code 1 and
\* the conflict message.
C9_ConflictAlwaysReported ==
    LocalGiven /\ RemoteGiven /\ pc # "startup" =>
        /\ pc = "exited"
        /\ exitCode = <<1>>
        /\ Texts(out) = <<"Cannot use both local and remote flags">>

\* C9, amended: with both locality flags the process ends at once, before
\* any prompt or subprocess; it ends with code 1 and the conflict message when
\* the command line also names a database and has neither the help flag nor
\* an unknown option (the help flag gives the usage and code 0, a missing
\* database name its own diagnostic and code 1).
C9_ConflictEndsStartup ==
    LocalGiven /\ RemoteGiven /\ pc # "startup" =>
        /\ pc = "exited"
        /\ handler = "main"
        /\ spawned = 0
        /\ args = <<>>
        /\ Count(out, PromptText) = 0
        /\ ~HelpGiven /\ ~UnknownGiven /\ ~NoDatabaseName =>
             /\ exitCode = <<1>>
             /\ Texts(out) = <<"Cannot use both local and remote flags">>
        /\ HelpGiven /\ ~UnknownGiven =>
             exitCode = <<0>> /\ Texts(out) = <<"Usage">>
        /\ ~HelpGiven /\ ~UnknownGiven /\ NoDatabaseName =>
             /\ exitCode = <<1>>
             /\ Texts(out) = <<"Database name is required">>

C9_Witness ==
    /\ argv = <<Db, <<"-","l">>, <<"-","-","r","e","m","o","t","e">>>>
    /\ pc = "exited"
    /\ exitCode = <<1>>
    /\ Texts(out) = <<"Cannot use both local and remote flags">>

\* Whether the process got as far as the REPL.
ReplStarted ==
    \/ pc \in {"prompting", "executing"}
    \/ handler # "main"
    \/ spawned > 0
    \/ Count(out, PromptText) > 0

-----------------------------------------------------------------------------
(* Rendering, termination and interrupts. *)

\* The answers of the model that are sequences of well-formed batches, each
\* batch as the documentation describes it: its success flag, its rows and
\* its metadata.
BatchDocs ==
    {"[]",
     "[{\"success\":true,\"results\":[{\"id\":1}],\"meta\":{}}]",
     "[{\"success\":true,\"results\":[],\"meta\":{\"changes\":1}}]",
     "[{\"success\":false,\"results\":[],\"meta\":{\"error\":\"no such table\"}}]",
     "[{\"success\":true,\"results\":[{\"id\":1}],\"meta\":{\"changes\":1}},{\"success\":false,\"results\":[],\"meta\":{\"error\":\"no such table\"}}]"}

DocBatch(success, rows, meta) ==
    [success |-> success, rows |-> rows, meta |-> meta]

DocBatches(text) ==
    CASE text = "[]" -> <<>>
      [] text = "[{\"success\":true,\"results\":[{\"id\":1}],\"meta\":{}}]" ->
            <<DocBatch(TRUE, <<Row1>>, JObj(<<>>))>>
      [] text = "[{\"success\":true,\"results\":[],\"meta\":{\"changes\":1}}]" ->
            <<DocBatch(TRUE, <<>>, MetaChanges)>>
      [] text = "[{\"success\":false,\"results\":[],\"meta\":{\"error\":\"no such table\"}}]" ->
            <<DocBatch(FALSE, <<>>, MetaNoTable)>>
      [] text = "[{\"success\":true,\"results\":[{\"id\":1}],\"meta\":{\"changes\":1}},{\"success\":false,\"results\":[],\"meta\":{\"error\":\"no such table\"}}]" ->
            <<DocBatch(TRUE, <<Row1>>, MetaChanges),
              DocBatch(FALSE, <<>>, MetaNoTable)>>

\* What the documentation says one batch prints.
DocRendering(b) ==
    IF b.success
    THEN <<Success>>
         \o (IF b.rows # <<>> THEN <<Stringified(JArr(b.rows))>>
             ELSE <<NoResultsReturned>>)
         \o (IF b.meta.entries # <<>> THEN <<MetaLog(b.meta)>> ELSE <<>>)
    ELSE <<QueryFailed, MetaErrorLog(b.meta)>>

RECURSIVE DocRenderings(_)
DocRenderings(batches) ==
    IF batches = <<>> THEN <<>>
    ELSE DocRendering(Head(batches)) \o DocRenderings(Tail(batches))

\* C11: an answer that is a sequence of batches is rendered batch by batch
\* in the order of the answer: a successful batch prints the success notice,
\* then the dump of its rows or, with no rows, the no-results notice, then
\* its metadata exactly when it has any; a failed batch prints the failure
\* notice and its metadata, and no execution failure is reported.
C11_BatchesRendered ==
    ~result.error /\ result.status = "0" /\ result.stdout \in BatchDocs =>
        /\ out = DocRenderings(DocBatches(result.stdout)) \o <<Prompt>>
        /\ Count(out, ExecutionFailedText) = 0
        /\ pc = "prompting"

C11_Witness ==
    /\ ~result.error
    /\ result.status = "0"
    /\ Texts(out) = <<"Success", "JSON.stringify", "Meta:", "Query failed",
                      "Meta:", PromptText>>
    /\ out[2].arg = JArr(<<Row1>>)
    /\ out[5].arg = MetaNoTable

\* The states in which the session was ended from the REPL: by an exit line
\* (handler "line") or by the end of the input (handler "close").
SessionEnded == pc = "exited" /\ handler \in {"line", "close"}

\* C12: the end of the input ends the session as .exit does: the farewell
\* is printed, the line reader is closed and the process exits with code 0,
\* and what is printed is the same on both paths, namely what the end of
\* the input prints: the farewell, once.
C12_SameTermination ==
    SessionEnded =>
        /\ exitCode = <<0>>
        /\ rlClosed
        /\ out = <<Goodbye>>

SigintHintText == "Use .exit or .quit to close the REPL"

\* C13: an interrupt never ends the process and never starts a subprocess.
\* Its arrival changes nothing of the session; the step that handles it is
\* taken in the prompting state, prints the hint and the prompt and nothing
\* else, makes no subprocess call, and leaves the REPL prompting with the
\* line reader open, so that the next line can be submitted.
C13_InterruptHarmless ==
    [][/\ pendingSigint' > pendingSigint =>
            /\ pc' = pc
            /\ exitCode' = exitCode
            /\ rlClosed' = rlClosed
            /\ spawned' = spawned
            /\ args' = args
            /\ out' = out
       /\ pendingSigint' < pendingSigint =>
            /\ pc = "prompting"
            /\ pc' = "prompting"
            /\ exitCode' = NoExit
            /\ ~rlClosed'
            /\ spawned' = 0
            /\ args' = <<>>
            /\ Texts(out') = <<SigintHintText, PromptText>>]_vars

C13_Witness ==
    /\ handler = "SIGINT"
    /\ pc = "prompting"
    /\ exitCode = NoExit
    /\ spawned = 0
    /\ Texts(out) = <<SigintHintText, PromptText>>

\* C14: an interrupt that arrives while the subprocess call blocks has no
\* effect on that line's execution: from the executing state the interrupt
\* handler never runs and no pending interrupt is consumed; the step that
\* leaves the executing state prints what the answer of the subprocess alone
\* determines, followed by the prompt, without the interrupt hint, whether
\* or not an interrupt is pending.
C14_InterruptWhileBlocked ==
    [][pc = "executing" =>
        /\ handler' # "SIGINT"
        /\ pendingSigint' >= pendingSigint
        /\ Count(out', SigintHintText) = 0
        /\ pc' = "executing" => out' = out /\ spawned' = spawned
        /\ pc' # "executing" =>
            /\ pc' = "prompting"
            /\ handler' = "line"
            /\ out' = afterSpawn(result') \o <<Prompt>>
            /\ Count(out', PromptText) = 1]_vars

C14_Witness ==
    /\ pc = "prompting"
    /\ handler = "line"
    /\ pendingSigint > 0
    /\ ~result.error
    /\ result.status = "0"
    /\ Texts(out) = <<"Success", "JSON.stringify", PromptText>>

\* The package-manager variable holds a value: it is set and not empty.
AgentGiven ==
    /\ environ.npm_config_user_agent # Undefined
    /\ environ.npm_config_user_agent # <<>>

DirectCall ==
    /\ args[1] = Wrangler
    /\ args[2] = <<"d","1">>
    /\ fs = NoFs

\* C15 as stated: whenever the package-manager variable is set, the
\* subprocess is wrangler itself, with no launcher word before it, and the
\* file system is not read.
C15_SetMeansDirect ==
    pc = "executing" /\ environ.npm_config_user_agent # Undefined =>
        DirectCall

\* C15, amended: whenever the package-manager variable is set to a non-empty
\* value, the subprocess is wrangler itself, with no launcher word before
\* it, whatever lockfiles exist, and the file system is not read.
C15_AgentMeansDirect ==
    pc = "executing" /\ AgentGiven => DirectCall

C15_Witness ==
    /\ pc = "executing"
    /\ environ.npm_config_user_agent = <<"p","n","p","m","/","9">>
    /\ args[1] = Wrangler
    /\ args[2] = <<"d","1">>
    /\ spawned = 1

\* The locality flags the command line asks for.
GivenFlags ==
    (IF LocalGiven THEN <<<<"-","-","l","o","c","a","l">>>> ELSE <<>>)
        \o (IF RemoteGiven THEN <<<<"-","-","r","e","m","o","t","e">>>> ELSE <<>>)

\* C16: the database name and the locality flags are set by the startup
\* step from the command line, and no step of the REPL changes them: every
\* subprocess, the first and any later one, is called with that database
\* name and those flags.
C16_ConfigurationFixed ==
    [][/\ pc = "startup" /\ pc' = "prompting" =>
            /\ databaseName' = Names[1]
            /\ flags' = GivenFlags
       /\ pc # "startup" =>
            /\ databaseName' = databaseName
            /\ flags' = flags
            /\ argv' = argv
            /\ pc' = "executing" =>
                 \E l \in Launchers :
                     args' = l \o <<<<"d","1">>, <<"e","x","e","c","u","t","e">>, databaseName>>
                               \o flags
                               \o <<<<"-","-","j","s","o","n">>, <<"-","-","c","o","m","m","a","n","d">>, sql'>>]_vars

\* A subprocess call has returned and the configuration is still the one
\* of the command line.
C16_Witness ==
    /\ pc = "prompting"
    /\ result # NoResult
    /\ argv = <<<<"-","l">>, Db>>
    /\ databaseName = Db
    /\ flags = <<<<"-","-","l","o","c","a","l">>>>

\* C17: on every path that ends the session from the REPL (.exit, .quit in
\* any letter case, the end of the input) the farewell is printed exactly
\* once and the process exits with code 0.
C17_FarewellOnce ==
    SessionEnded =>
        /\ exitCode = <<0>>
        /\ Count(out, "Goodbye!") = 1

\* The lines that the rendering of a batch prints.
BatchTexts ==
    {"Success", "JSON.stringify", "No results", "No results returned",
     "Meta:", "Query failed"}

BatchRendered == \E i \in DOMAIN out : out[i].msg \in BatchTexts

\* C18: for one subprocess call, the output of rendered batches and the
\* 'Execution failed:' line exclude each other: whatever the answer is,
\* either batches are rendered and no execution failure is reported, or the
\* execution failure is reported and no batch is rendered.
C18_RenderedOrFailed ==
    result # NoResult =>
        ~(BatchRendered /\ Count(out, ExecutionFailedText) > 0)
=============================================================================
